---- MODULE Spec2Model ----
(***************************************************************************)
(* Model of the configuration loader (config.py) and of the Firebase       *)
(* connection initializer (firebase_manager.py).                           *)
(*                                                                         *)
(* Strings are sequences of one-character tokens.  The backslash character *)
(* is the token "BSL" and the newline character is the token "LF"; every   *)
(* other token stands for itself.                                          *)
(***************************************************************************)
EXTENDS Integers, Sequences, FiniteSets, TLC

\* ------------------------------------------------------------------ bounds

\* Longest FIREBASE_PRIVATE_KEY value drawn for the environment.
MaxKeyLen == 4

\* Largest max_retries a FirebaseManager is constructed with.
MaxRetriesBound == 4

\* Largest max_retries where several managers are constructed in a process.
MaxProcessRetries == 2

\* Largest max_retries where the managers are constructed in threads.
MaxThreadRetries == 2

\* ------------------------------------------------------- config.py: values

BSL == "BSL"
LF == "LF"

\* An environment variable that is not set, and one set to the string s.
Absent == [set |-> FALSE, value |-> <<>>]

Present(s) == [set |-> TRUE, value |-> s]

\* Characters the private key value is drawn from.
KeyAlphabet == {BSL, "n", LF}

\* All strings over S of length at most n.
StringsUpTo(S, n) == UNION {[1..k -> S] : k \in 0..n}

\* config.py:14-19, the env= names of the six required fields.
RequiredVars ==
    {"FIREBASE_PROJECT_ID", "FIREBASE_PRIVATE_KEY_ID", "FIREBASE_PRIVATE_KEY",
     "FIREBASE_CLIENT_EMAIL", "FIREBASE_CLIENT_ID", "FIREBASE_CLIENT_X509_CERT_URL"}

\* config.py:35-37, the env= names of the optional fields.
OptionalVars == {"SYNC_INTERVAL_MINUTES", "MAX_CONCURRENT_REQUESTS", "LOG_LEVEL"}

EnvVars == RequiredVars \cup OptionalVars

\* The strings each variable is set to in the environments explored.
EnvStrings(var) ==
    CASE var = "FIREBASE_PRIVATE_KEY" -> StringsUpTo(KeyAlphabet, MaxKeyLen)
      [] var = "FIREBASE_PROJECT_ID" -> {<<>>, <<BSL, "n">>}
      [] var \in {"FIREBASE_PRIVATE_KEY_ID", "FIREBASE_CLIENT_EMAIL",
                  "FIREBASE_CLIENT_ID", "FIREBASE_CLIENT_X509_CERT_URL"} ->
            {<<"k">>}
      [] var = "SYNC_INTERVAL_MINUTES" ->
            {<<"-", "1">>, <<"0">>, <<"1", "5">>, <<"x">>}
      [] var = "MAX_CONCURRENT_REQUESTS" -> {<<"0">>, <<"8">>}
      [] var = "LOG_LEVEL" -> {<<"D", "E", "B", "U", "G">>}

\* The values each variable takes: not set, or set to one of its strings.
EnvValues(var) == {Absent} \cup {Present(s) : s \in EnvStrings(var)}

\* ---------------------------------------------------- config.py: functions

\* str.replace('\\n', '\n'): left to right, non-overlapping occurrences of
\* the two characters backslash, n become one newline character.
RECURSIVE str_replace_bsn(_)
str_replace_bsn(v) ==
    IF Len(v) < 2 THEN v
    ELSE IF v[1] = BSL /\ v[2] = "n"
         THEN <<LF>> \o str_replace_bsn(SubSeq(v, 3, Len(v)))
         ELSE <<v[1]>> \o str_replace_bsn(Tail(v))

\* A bug: only the first occurrence is replaced (str.replace(old, new, 1)).
RECURSIVE fix_first_only(_)
fix_first_only(v) ==
    IF Len(v) < 2 THEN v
    ELSE IF v[1] = BSL /\ v[2] = "n"
         THEN <<LF>> \o SubSeq(v, 3, Len(v))
         ELSE <<v[1]>> \o fix_first_only(Tail(v))

\* A bug: the replacement drops the backslash only, v.replace('\\n', 'n').
RECURSIVE fix_drops_backslash(_)
fix_drops_backslash(v) ==
    IF Len(v) < 2 THEN v
    ELSE IF v[1] = BSL /\ v[2] = "n"
         THEN <<"n">> \o fix_drops_backslash(SubSeq(v, 3, Len(v)))
         ELSE <<v[1]>> \o fix_drops_backslash(Tail(v))

\* config.py:21-24, the validator of private_key.
fix_private_key_format(v) == str_replace_bsn(v)

DigitValue(c) ==
    CASE c = "0" -> 0 [] c = "1" -> 1 [] c = "2" -> 2 [] c = "3" -> 3
      [] c = "4" -> 4 [] c = "5" -> 5 [] c = "6" -> 6 [] c = "7" -> 7
      [] c = "8" -> 8 [] c = "9" -> 9 [] OTHER -> -1

IsDigits(s) == Len(s) > 0 /\ \A i \in 1..Len(s) : DigitValue(s[i]) >= 0

RECURSIVE DigitsValue(_)
DigitsValue(s) ==
    IF Len(s) = 0 THEN 0
    ELSE 10 * DigitsValue(SubSeq(s, 1, Len(s) - 1)) + DigitValue(s[Len(s)])

\* pydantic's int field on an environment string: int(v) or a validation
\* error.
IsIntString(s) ==
    \/ IsDigits(s)
    \/ Len(s) > 1 /\ s[1] \in {"-", "+"} /\ IsDigits(Tail(s))

ParseInt(s) ==
    IF s[1] = "-" THEN 0 - DigitsValue(Tail(s))
    ELSE IF s[1] = "+" THEN DigitsValue(Tail(s))
    ELSE DigitsValue(s)

\* The result of a constructor that raised pydantic's ValidationError.
ValidationError == [error |-> "ValidationError"]

IsError(r) == "error" \in DOMAIN r

\* A bug: client_id declared with a default, Field("", env=...), so its
\* variable is no longer required.
FirebaseConfig_client_id_optional(e) ==
    IF \E var \in RequiredVars \ {"FIREBASE_CLIENT_ID"} : ~e[var].set
    THEN ValidationError
    ELSE [project_id |-> e["FIREBASE_PROJECT_ID"].value,
          private_key_id |-> e["FIREBASE_PRIVATE_KEY_ID"].value,
          private_key |->
              fix_private_key_format(e["FIREBASE_PRIVATE_KEY"].value),
          client_email |-> e["FIREBASE_CLIENT_EMAIL"].value,
          client_id |-> e["FIREBASE_CLIENT_ID"].value,
          client_x509_cert_url |-> e["FIREBASE_CLIENT_X509_CERT_URL"].value]

\* config.py:12-24, FirebaseConfig(): every field is required (Field(...)).
FirebaseConfig(e) ==
    IF \E var \in RequiredVars : ~e[var].set
    THEN ValidationError
    ELSE [project_id |-> e["FIREBASE_PROJECT_ID"].value,
          private_key_id |-> e["FIREBASE_PRIVATE_KEY_ID"].value,
          private_key |->
              fix_private_key_format(e["FIREBASE_PRIVATE_KEY"].value),
          client_email |-> e["FIREBASE_CLIENT_EMAIL"].value,
          client_id |-> e["FIREBASE_CLIENT_ID"].value,
          client_x509_cert_url |-> e["FIREBASE_CLIENT_X509_CERT_URL"].value]

\* config.py:26-31, DomainAPIConfig(): api_keys defaults to an empty dict
\* (DOMAIN_API_KEYS is not set in the environments explored).
DomainAPIConfig(e) == [api_keys |-> <<>>]

\* A bug: the field is not bound to its variable and keeps its default.
IntField_ignores_env(e, var, default) == default

\* config.py:35-36, an int field with a default and no further constraint.
IntField(e, var, default) ==
    IF e[var].set THEN ParseInt(e[var].value) ELSE default

\* config.py:33-38, SystemConfig().
SystemConfig(e) ==
    IF \E var \in {"SYNC_INTERVAL_MINUTES", "MAX_CONCURRENT_REQUESTS"} :
          e[var].set /\ ~IsIntString(e[var].value)
    THEN ValidationError
    ELSE [sync_interval_minutes |-> IntField(e, "SYNC_INTERVAL_MINUTES", 30),
          max_concurrent_requests |-> IntField(e, "MAX_CONCURRENT_REQUESTS", 5),
          log_level |-> IF e["LOG_LEVEL"].set
                        THEN e["LOG_LEVEL"].value ELSE <<"I", "N", "F", "O">>,
          allowed_domains |->
              <<"ecommerce", "logistics", "finance", "manufacturing">>]

\* config.py:40-45, CrossDomainConfig(): the three settings objects are
\* built in order; the first constructor that raises ends the construction.
CrossDomainConfig(e) ==
    IF IsError(FirebaseConfig(e)) THEN ValidationError
    ELSE IF IsError(SystemConfig(e)) THEN ValidationError
    ELSE [firebase |-> FirebaseConfig(e),
          domain_api |-> DomainAPIConfig(e),
          system |-> SystemConfig(e)]

\* A value json.dumps cannot serialize (an object that is no str).
Unserializable == <<"<object>">>

\* The fields of FirebaseConfig.
CredentialFields ==
    {"project_id", "private_key_id", "private_key", "client_email",
     "client_id", "client_x509_cert_url"}

\* config.py:52-63, the payload validate() rebuilds; the constant strings
\* are written as one token each.
creds_dict(cfg) ==
    [type |-> <<"service_account">>,
     project_id |-> cfg.firebase.project_id,
     private_key_id |-> cfg.firebase.private_key_id,
     private_key |-> cfg.firebase.private_key,
     client_email |-> cfg.firebase.client_email,
     client_id |-> cfg.firebase.client_id,
     auth_uri |-> <<"https://accounts.google.com/o/oauth2/auth">>,
     token_uri |-> <<"https://oauth2.googleapis.com/token">>,
     auth_provider_x509_cert_url |->
         <<"https://www.googleapis.com/oauth2/v1/certs">>,
     client_x509_cert_url |-> cfg.firebase.client_x509_cert_url]

Serializable(d) == \A f \in DOMAIN d : d[f] # Unserializable

\* config.py:64, json.dumps(creds_dict): the text, or a TypeError.
json_dumps(d) ==
    IF Serializable(d) THEN [error |-> "none", text |-> d]
    ELSE [error |-> "TypeError", text |-> <<>>]

\* No validate() call has been made.
NotValidated == [outcome |-> "none", value |-> "none", cause |-> "none"]

\* A bug: the except clause returns False instead of raising.
validate_returns_false(cfg) ==
    IF json_dumps(creds_dict(cfg)).error = "none"
    THEN [outcome |-> "returned", value |-> "True", cause |-> "none"]
    ELSE [outcome |-> "returned", value |-> "False", cause |-> "none"]

\* config.py:47-67, validate(): True, or ValueError("Configuration
\* validation failed: " + str(e)) for the exception e of json.dumps.
validate(cfg) ==
    IF json_dumps(creds_dict(cfg)).error = "none"
    THEN [outcome |-> "returned", value |-> "True", cause |-> "none"]
    ELSE [outcome |-> "raised", value |-> "ValueError",
          cause |-> json_dumps(creds_dict(cfg)).error]

\* ------------------------------------------------------------------- state

VARIABLES
    env,                  \* os.environ, as read by the settings classes
    cfg_pc,               \* import of config.py: "start", "loaded", "failed"
    config,               \* config.py:69, the module-level config object
    validated,            \* outcome of the latest config.validate() call
    firebase_admin_apps,  \* firebase_admin._apps, the process-wide registry
    store,                \* the remote documents, by path
    serverClock,          \* the remote service's clock (SERVER_TIMESTAMP)
    pc,                   \* position of each FirebaseManager construction
    max_retries,          \* self.max_retries
    retry_delay,          \* self.retry_delay
    self_app,             \* self._app
    self_client,          \* self._client
    self_initialized,     \* self._initialized
    attempt,              \* the loop variable of _initialize_firebase
    exc,                  \* the FirebaseError caught by the except clause
    raised,               \* the exception that left the constructor
    attempts,             \* history: attempts started
    sleeps,               \* history: the time.sleep() arguments, in order
    caught,               \* history: causes of the FirebaseErrors caught, in order
    lastThrown,           \* history: the latest exception an SDK call raised
    hcAttempt,            \* history: attempt whose health-check write succeeded
    requestedIn,          \* history: attempt that last requested an app handle
    initAppOk,            \* history: successful initialize_app calls
    appRequests           \* history: credential payloads built

cfgVars == <<env, cfg_pc, config, validated>>

processVars == <<firebase_admin_apps, store, serverClock, initAppOk, appRequests>>

managerVars ==
    <<pc, max_retries, retry_delay, self_app, self_client, self_initialized,
      attempt, exc, raised, attempts, sleeps, caught, lastThrown, hcAttempt,
      requestedIn>>

vars == <<cfgVars, processVars, managerVars>>

\* The FirebaseManager constructions of one process, in order: the first
\* one and a later one, which finds what the first left in the registry.
Managers == {1, 2}

\* The values of max_retries explored: negative, zero and positive.
RetryCounts == (0 - 1)..MaxRetriesBound

\* The values of retry_delay explored, in time units.
RetryDelays == {1, 3}

\* The values of max_retries explored where several managers are
\* constructed.
ProcessRetryCounts == 0..MaxProcessRetries

\* The values of max_retries explored where managers are constructed in
\* threads, each with the default retry_delay.
ThreadRetryCounts == 1..MaxThreadRetries

\* What an SDK call raises: an error of the service's taxonomy
\* (exceptions.FirebaseError) or any other exception.
Causes == {"e1", "e2"}

Exceptions == [kind : {"FirebaseError", "Other"}, cause : Causes]

NoExc == [kind |-> "none", cause |-> "none"]

\* What an SDK call does: it returns, or it raises one of Exceptions.
Returns == [kind |-> "ok", cause |-> "none"]

Outcomes == {Returns} \cup Exceptions

NoThrow == [step |-> "none", kind |-> "none", cause |-> "none", attempt |-> 0 - 1]

None == "None"

HealthDoc == "system_health/connection_test"

OtherDoc == "domains/ecommerce"

\* The remote store with no health document yet.
EmptyStore == [p \in {OtherDoc} |-> [name |-> "shop"]]

\* The remote store before the initializer runs: with and without the
\* health document.
InitialStores ==
    {EmptyStore,
     [p \in {OtherDoc, HealthDoc} |->
         IF p = OtherDoc THEN [name |-> "shop"]
         ELSE [timestamp |-> 0, owner |-> "ops"]]}

\* An environment with every required variable set.
ValidEnv ==
    [var \in EnvVars |->
        CASE var = "FIREBASE_PRIVATE_KEY" -> Present(<<"k", BSL, "n", "k">>)
          [] var \in RequiredVars \ {"FIREBASE_PRIVATE_KEY"} -> Present(<<"k">>)
          [] OTHER -> Absent]

NoConfig == [none |-> TRUE]

ManagerInit ==
    /\ pc = [m \in Managers |-> "new"]
    /\ max_retries = [m \in Managers |-> 0]
    /\ retry_delay = [m \in Managers |-> 0]
    /\ self_app = [m \in Managers |-> None]
    /\ self_client = [m \in Managers |-> None]
    /\ self_initialized = [m \in Managers |-> FALSE]
    /\ attempt = [m \in Managers |-> 0 - 1]
    /\ exc = [m \in Managers |-> NoExc]
    /\ raised = [m \in Managers |-> NoExc]
    /\ attempts = [m \in Managers |-> 0]
    /\ sleeps = [m \in Managers |-> <<>>]
    /\ caught = [m \in Managers |-> <<>>]
    /\ lastThrown = [m \in Managers |-> NoThrow]
    /\ hcAttempt = [m \in Managers |-> 0 - 1]
    /\ requestedIn = [m \in Managers |-> 0 - 1]

ProcessInit ==
    /\ firebase_admin_apps = <<>>
    /\ serverClock = 1
    /\ initAppOk = 0
    /\ appRequests = 0

\* ------------------------------------------------- config.py: the loader

\* The process starts with any environment; config.py is not imported yet.
ConfigInit ==
    /\ \E pid \in EnvValues("FIREBASE_PROJECT_ID"),
          kid \in EnvValues("FIREBASE_PRIVATE_KEY_ID"),
          key \in EnvValues("FIREBASE_PRIVATE_KEY"),
          mail \in EnvValues("FIREBASE_CLIENT_EMAIL"),
          cid \in EnvValues("FIREBASE_CLIENT_ID"),
          url \in EnvValues("FIREBASE_CLIENT_X509_CERT_URL"),
          sync \in EnvValues("SYNC_INTERVAL_MINUTES"),
          conc \in EnvValues("MAX_CONCURRENT_REQUESTS"),
          lvl \in EnvValues("LOG_LEVEL") :
          env = [var \in EnvVars |->
                    CASE var = "FIREBASE_PROJECT_ID" -> pid
                      [] var = "FIREBASE_PRIVATE_KEY_ID" -> kid
                      [] var = "FIREBASE_PRIVATE_KEY" -> key
                      [] var = "FIREBASE_CLIENT_EMAIL" -> mail
                      [] var = "FIREBASE_CLIENT_ID" -> cid
                      [] var = "FIREBASE_CLIENT_X509_CERT_URL" -> url
                      [] var = "SYNC_INTERVAL_MINUTES" -> sync
                      [] var = "MAX_CONCURRENT_REQUESTS" -> conc
                      [] var = "LOG_LEVEL" -> lvl]
    /\ cfg_pc = "start"
    /\ config = NoConfig
    /\ validated = NotValidated
    /\ store = EmptyStore
    /\ ProcessInit
    /\ ManagerInit

\* config.py:69, config = CrossDomainConfig(): the import binds config, or
\* the constructor's error leaves the module without it.
ImportConfig ==
    /\ cfg_pc = "start"
    /\ IF IsError(CrossDomainConfig(env))
       THEN cfg_pc' = "failed" /\ config' = NoConfig
       ELSE cfg_pc' = "loaded" /\ config' = CrossDomainConfig(env)
    /\ UNCHANGED <<env, validated, processVars, managerVars>>

\* config.py:47-67, config.validate(): the outcome is recorded; the
\* configuration is only read.
Validate ==
    /\ cfg_pc = "loaded"
    /\ validated' = validate(config)
    /\ UNCHANGED <<env, cfg_pc, config, processVars, managerVars>>

\* A caller assigns an object json cannot serialize to a credential field
\* of the loaded settings (pydantic does not validate assignments).
InjectField(f) ==
    /\ cfg_pc = "loaded"
    /\ Serializable(creds_dict(config))
    /\ config' = [config EXCEPT !.firebase[f] = Unserializable]
    /\ UNCHANGED <<env, cfg_pc, validated, processVars, managerVars>>

ConfigNext ==
    \/ ImportConfig
    \/ Validate

SpecConfig == ConfigInit /\ [][ConfigNext]_vars

\* The loader with a caller that may replace a credential field before it
\* calls validate().
ValidateNext ==
    \/ ConfigNext
    \/ \E f \in CredentialFields : InjectField(f)

SpecValidate == ConfigInit /\ [][ValidateNext]_vars

\* ------------------------------- firebase_manager.py: the initializer

DefaultApp == "[DEFAULT]"

RECURSIVE Pow2(_)
Pow2(n) == IF n <= 0 THEN 1 ELSE 2 * Pow2(n - 1)

\* firebase_manager.py:33-44, the credential payload built from config.
cred_dict(cfg) ==
    [type |-> "service_account",
     project_id |-> cfg.firebase.project_id,
     private_key_id |-> cfg.firebase.private_key_id,
     private_key |-> cfg.firebase.private_key,
     client_email |-> cfg.firebase.client_email,
     client_id |-> cfg.firebase.client_id,
     client_x509_cert_url |-> cfg.firebase.client_x509_cert_url]

\* firebase_manager.py:30, for attempt in range(self.max_retries): whether
\* an attempt follows attempt a.
LoopHasNext(a, mr) == a + 1 < mr

\* A bug: the check of the registry is dropped.
NeedsApp_always(apps) == TRUE

\* firebase_manager.py:32, if not firebase_admin._apps.
NeedsApp(apps) == DOMAIN apps = {}

\* A bug: the client is used for the write but not kept in self._client.
firestore_client_not_stored == None

\* firebase_manager.py:50, the handle firestore.client() returns: the
\* client of the default app.
firestore_client == DefaultApp

\* The ValueError of initialize_app when the default app exists already.
AppExistsError == [kind |-> "Other", cause |-> "exists"]

\* A bug: the health-check write is skipped.
AfterClient_no_health_check == "mark"

\* firebase_manager.py:50-52, the statement that follows firestore.client().
AfterClient == "health"

\* A bug: except Exception.
IsRetried_any(o) == o.kind \in {"FirebaseError", "Other"}

\* firebase_manager.py:61, except exceptions.FirebaseError.
IsRetried(o) == o.kind = "FirebaseError"

\* A bug: the last failure sleeps too (attempt < self.max_retries).
ShouldSleep_off_by_one(a, mr) == a < mr

\* A bug: the retries stop one attempt early.
ShouldSleep_early(a, mr) == a < mr - 2

\* firebase_manager.py:63, if attempt < self.max_retries - 1.
ShouldSleep(a, mr) == a < mr - 1

\* A bug: linear backoff, retry_delay * (attempt + 1).
BackoffDelay_linear(rd, a) == rd * (a + 1)

\* firebase_manager.py:64, self.retry_delay * (2 ** attempt).
BackoffDelay(rd, a) == rd * Pow2(a)

\* A bug: the message names no cause.
WrappedError_no_cause(e) == [kind |-> "ConnectionError", cause |-> "none"]

\* firebase_manager.py:67, ConnectionError(f"Cannot connect to Firebase:
\* {str(e)}"): the error carries the caught exception's text.
WrappedError(e) == [kind |-> "ConnectionError", cause |-> e.cause]

\* firebase_manager.py:13, the sentinel the service replaces by its clock.
SERVER_TIMESTAMP == "SERVER_TIMESTAMP"

\* A bug: merge=True is left out and the write replaces the document.
OverwriteSet(st, path, fields, now) ==
    [p \in DOMAIN st \cup {path} |->
        IF p = path
        THEN [f \in DOMAIN fields |->
                 IF fields[f] = SERVER_TIMESTAMP THEN now ELSE fields[f]]
        ELSE st[p]]

\* document.set(fields, merge=True) with SERVER_TIMESTAMP resolved to now:
\* the document is created if absent, else only the given fields change.
MergeSet(st, path, fields, now) ==
    LET old == IF path \in DOMAIN st THEN st[path] ELSE <<>>
        new == [f \in DOMAIN old \cup DOMAIN fields |->
                   IF f \in DOMAIN fields
                   THEN (IF fields[f] = SERVER_TIMESTAMP THEN now ELSE fields[f])
                   ELSE old[f]]
    IN [p \in DOMAIN st \cup {path} |-> IF p = path THEN new ELSE st[p]]

\* firebase_manager.py:52-55, the fields of the health-check write.
HealthFields == [timestamp |-> SERVER_TIMESTAMP, status |-> "connected"]

\* The import of firebase_manager has bound config (firebase_manager.py:15);
\* no FirebaseManager exists yet.
Init ==
    /\ env = ValidEnv
    /\ cfg_pc = "loaded"
    /\ config = CrossDomainConfig(ValidEnv)
    /\ validated = NotValidated
    /\ store \in InitialStores
    /\ ProcessInit
    /\ ManagerInit

Finished(m) == pc[m] \in {"returned", "raised"}

\* An exception o leaves the SDK call made at step in the try body:
\* firebase_manager.py:61, a FirebaseError enters the except clause, any
\* other exception leaves _initialize_firebase and the constructor.
Throw(m, step, o) ==
    /\ lastThrown' = [lastThrown EXCEPT ![m] =
            [step |-> step, kind |-> o.kind, cause |-> o.cause,
             attempt |-> attempt[m]]]
    /\ IF IsRetried(o)
       THEN /\ pc' = [pc EXCEPT ![m] = "except"]
            /\ exc' = [exc EXCEPT ![m] = o]
            /\ caught' = [caught EXCEPT ![m] = Append(@, o.cause)]
            /\ UNCHANGED raised
       ELSE /\ pc' = [pc EXCEPT ![m] = "raised"]
            /\ raised' = [raised EXCEPT ![m] = o]
            /\ UNCHANGED <<exc, caught>>

\* firebase_manager.py:20-26, __init__ up to the call of
\* _initialize_firebase.  Constructions follow one another: a manager is
\* constructed when the constructions before it have ended.
Construct(m, mr, rd) ==
    /\ pc[m] = "new"
    /\ \A k \in Managers : k < m => Finished(k)
    /\ max_retries' = [max_retries EXCEPT ![m] = mr]
    /\ retry_delay' = [retry_delay EXCEPT ![m] = rd]
    /\ self_app' = [self_app EXCEPT ![m] = None]
    /\ self_client' = [self_client EXCEPT ![m] = None]
    /\ self_initialized' = [self_initialized EXCEPT ![m] = FALSE]
    /\ pc' = [pc EXCEPT ![m] = "for"]
    /\ UNCHANGED <<cfgVars, processVars, attempt, exc, raised, attempts, sleeps,
                   caught, lastThrown, hcAttempt, requestedIn>>

\* firebase_manager.py:30, the for statement: the next attempt starts, or
\* the range is exhausted and the method returns None.
NextAttempt(m) ==
    /\ pc[m] = "for"
    /\ IF LoopHasNext(attempt[m], max_retries[m])
       THEN /\ attempt' = [attempt EXCEPT ![m] = @ + 1]
            /\ attempts' = [attempts EXCEPT ![m] = @ + 1]
            /\ pc' = [pc EXCEPT ![m] = "check_apps"]
       ELSE /\ pc' = [pc EXCEPT ![m] = "returned"]
            /\ UNCHANGED <<attempt, attempts>>
    /\ UNCHANGED <<cfgVars, processVars, max_retries, retry_delay, self_app,
                   self_client, self_initialized, exc, raised, sleeps, caught,
                   lastThrown, hcAttempt, requestedIn>>

\* firebase_manager.py:32, the test of the process-wide registry.
CheckApps(m) ==
    /\ pc[m] = "check_apps"
    /\ pc' = [pc EXCEPT ![m] =
            IF NeedsApp(firebase_admin_apps) THEN "certificate" ELSE "client"]
    /\ UNCHANGED <<cfgVars, processVars, max_retries, retry_delay, self_app,
                   self_client, self_initialized, attempt, exc, raised,
                   attempts, sleeps, caught, lastThrown, hcAttempt, requestedIn>>

\* firebase_manager.py:33-46, the payload is built and handed to
\* credentials.Certificate.
Certificate(m, o) ==
    /\ pc[m] = "certificate"
    /\ appRequests' = appRequests + 1
    /\ requestedIn' = [requestedIn EXCEPT ![m] = attempt[m]]
    /\ IF o = Returns
       THEN /\ pc' = [pc EXCEPT ![m] = "initialize_app"]
            /\ UNCHANGED <<exc, raised, caught, lastThrown>>
       ELSE Throw(m, "certificate", o)
    /\ UNCHANGED <<cfgVars, firebase_admin_apps, store, serverClock, initAppOk,
                   max_retries, retry_delay, self_app, self_client,
                   self_initialized, attempt, attempts, sleeps, hcAttempt>>

\* firebase_manager.py:47-48, firebase_admin.initialize_app(cred): the SDK
\* registers the default app, and raises ValueError if one is registered.
InitializeApp(m, o) ==
    /\ pc[m] = "initialize_app"
    /\ IF DefaultApp \in DOMAIN firebase_admin_apps
       THEN /\ o = Returns
            /\ Throw(m, "initialize_app", AppExistsError)
            /\ UNCHANGED <<firebase_admin_apps, initAppOk, self_app>>
       ELSE IF o = Returns
       THEN /\ firebase_admin_apps' =
                [n \in {DefaultApp} |->
                    [name |-> DefaultApp, credential |-> cred_dict(config)]]
            /\ self_app' = [self_app EXCEPT ![m] = DefaultApp]
            /\ initAppOk' = initAppOk + 1
            /\ pc' = [pc EXCEPT ![m] = "client"]
            /\ UNCHANGED <<exc, raised, caught, lastThrown>>
       ELSE /\ Throw(m, "initialize_app", o)
            /\ UNCHANGED <<firebase_admin_apps, initAppOk, self_app>>
    /\ UNCHANGED <<cfgVars, store, serverClock, appRequests, max_retries,
                   retry_delay, self_client, self_initialized, attempt,
                   attempts, sleeps, hcAttempt, requestedIn>>

\* firebase_manager.py:50, self._client = firestore.client().
GetClient(m, o) ==
    /\ pc[m] = "client"
    /\ IF o = Returns
       THEN /\ self_client' = [self_client EXCEPT ![m] = firestore_client]
            /\ pc' = [pc EXCEPT ![m] = AfterClient]
            /\ UNCHANGED <<exc, raised, caught, lastThrown>>
       ELSE /\ Throw(m, "client", o)
            /\ UNCHANGED self_client
    /\ UNCHANGED <<cfgVars, processVars, max_retries, retry_delay, self_app,
                   self_initialized, attempt, attempts, sleeps, hcAttempt,
                   requestedIn>>

\* firebase_manager.py:52-55, the health-check write.
HealthCheck(m, o) ==
    /\ pc[m] = "health"
    /\ IF o = Returns
       THEN /\ store' = MergeSet(store, HealthDoc, HealthFields, serverClock)
            /\ serverClock' = serverClock + 1
            /\ hcAttempt' = [hcAttempt EXCEPT ![m] = attempt[m]]
            /\ pc' = [pc EXCEPT ![m] = "mark"]
            /\ UNCHANGED <<exc, raised, caught, lastThrown>>
       ELSE /\ Throw(m, "health", o)
            /\ UNCHANGED <<store, serverClock, hcAttempt>>
    /\ UNCHANGED <<cfgVars, firebase_admin_apps, initAppOk, appRequests,
                   max_retries, retry_delay, self_app, self_client,
                   self_initialized, attempt, attempts, sleeps, requestedIn>>

\* firebase_manager.py:57-59, the flag is set and the method returns.
MarkInitialized(m) ==
    /\ pc[m] = "mark"
    /\ self_initialized' = [self_initialized EXCEPT ![m] = TRUE]
    /\ pc' = [pc EXCEPT ![m] = "returned"]
    /\ UNCHANGED <<cfgVars, processVars, max_retries, retry_delay, self_app,
                   self_client, attempt, exc, raised, attempts, sleeps, caught,
                   lastThrown, hcAttempt, requestedIn>>

\* firebase_manager.py:61-67, the except clause: sleep and go on with the
\* loop, or raise ConnectionError.
HandleFirebaseError(m) ==
    /\ pc[m] = "except"
    /\ IF ShouldSleep(attempt[m], max_retries[m])
       THEN /\ sleeps' = [sleeps EXCEPT ![m] =
                    Append(@, BackoffDelay(retry_delay[m], attempt[m]))]
            /\ exc' = [exc EXCEPT ![m] = NoExc]
            /\ pc' = [pc EXCEPT ![m] = "for"]
            /\ UNCHANGED raised
       ELSE /\ raised' = [raised EXCEPT ![m] = WrappedError(exc[m])]
            /\ pc' = [pc EXCEPT ![m] = "raised"]
            /\ UNCHANGED <<sleeps, exc>>
    /\ UNCHANGED <<cfgVars, processVars, max_retries, retry_delay, self_app,
                   self_client, self_initialized, attempt, attempts, caught,
                   lastThrown, hcAttempt, requestedIn>>

\* One step of the construction of manager m, with max_retries drawn from R
\* and retry_delay from D.
Step(m, R, D) ==
    \/ \E mr \in R, rd \in D : Construct(m, mr, rd)
    \/ NextAttempt(m)
    \/ CheckApps(m)
    \/ \E o \in Outcomes : Certificate(m, o)
    \/ \E o \in Outcomes : InitializeApp(m, o)
    \/ \E o \in Outcomes : GetClient(m, o)
    \/ \E o \in Outcomes : HealthCheck(m, o)
    \/ MarkInitialized(m)
    \/ HandleFirebaseError(m)

\* A process that constructs one FirebaseManager.
Next == Step(1, RetryCounts, RetryDelays)

Spec == Init /\ [][Next]_vars

\* A process that constructs its managers one after the other.
NextProcess == \E m \in Managers : Step(m, ProcessRetryCounts, RetryDelays)

SpecProcess == Init /\ [][NextProcess]_vars

\* The single construction under the scheduling of a synchronous program:
\* an SDK call returns or raises, a sleep ends, and the next statement runs.
SpecLive == Init /\ [][Next]_vars /\ WF_vars(Next)

\* firebase_manager.py:20-26, __init__ called in a thread of its own: it
\* does not wait for the other constructions.
ConstructInThread(m, mr, rd) ==
    /\ pc[m] = "new"
    /\ max_retries' = [max_retries EXCEPT ![m] = mr]
    /\ retry_delay' = [retry_delay EXCEPT ![m] = rd]
    /\ self_app' = [self_app EXCEPT ![m] = None]
    /\ self_client' = [self_client EXCEPT ![m] = None]
    /\ self_initialized' = [self_initialized EXCEPT ![m] = FALSE]
    /\ pc' = [pc EXCEPT ![m] = "for"]
    /\ UNCHANGED <<cfgVars, processVars, attempt, exc, raised, attempts, sleeps,
                   caught, lastThrown, hcAttempt, requestedIn>>

\* One step of the construction of manager m in its thread.
StepInThread(m, R, D) ==
    \/ \E mr \in R, rd \in D : ConstructInThread(m, mr, rd)
    \/ NextAttempt(m)
    \/ CheckApps(m)
    \/ \E o \in Outcomes : Certificate(m, o)
    \/ \E o \in Outcomes : InitializeApp(m, o)
    \/ \E o \in Outcomes : GetClient(m, o)
    \/ \E o \in Outcomes : HealthCheck(m, o)
    \/ MarkInitialized(m)
    \/ HandleFirebaseError(m)

\* A process whose managers are constructed in threads that interleave
\* statement by statement.
NextThreads == \E m \in Managers : StepInThread(m, ThreadRetryCounts, {1})

SpecThreads == Init /\ [][NextThreads]_vars

\* ------------------------------------------------ claims on the loader

\* C6: if any one of the six required FIREBASE_* variables is absent, the
\* construction of the aggregate configuration fails and no settings
\* object, partial or complete, reaches the caller.
C6_MissingRequiredFails ==
    (cfg_pc # "start" /\ \E var \in RequiredVars : ~env[var].set)
        => (cfg_pc = "failed" /\ config = NoConfig)

\* C6 witness: the import has failed in an environment where exactly one
\* required variable is absent and every optional one parses.
C6_Witness ==
    /\ cfg_pc = "failed"
    /\ Cardinality({var \in RequiredVars : ~env[var].set}) = 1
    /\ ~IsError(SystemConfig(env))

\* The places where the two characters backslash, n start in v.
EscapePositions(v) ==
    {i \in 1..(Len(v) - 1) : v[i] = BSL /\ v[i + 1] = "n"}

\* out is v with each backslash-n pair turned into one newline and every
\* other character kept, in order.
IsNewlineConversion(v, out) ==
    LET P == EscapePositions(v)
        shift(i) == Cardinality({p \in P : p < i})
    IN /\ Len(out) = Len(v) - Cardinality(P)
       /\ \A i \in 1..Len(v) :
            /\ i \in P => out[i - shift(i)] = LF
            /\ (i \notin P /\ (i - 1) \notin P) => out[i - shift(i)] = v[i]

\* C7: with all required variables present the loaded fields equal the
\* input strings, except private_key, which is the input with every
\* backslash-n pair replaced by a newline: no pair remains and the other
\* characters keep their order.
C7_FieldsMatchInput ==
    cfg_pc = "loaded" =>
        /\ config.firebase.project_id = env["FIREBASE_PROJECT_ID"].value
        /\ config.firebase.private_key_id = env["FIREBASE_PRIVATE_KEY_ID"].value
        /\ config.firebase.client_email = env["FIREBASE_CLIENT_EMAIL"].value
        /\ config.firebase.client_id = env["FIREBASE_CLIENT_ID"].value
        /\ config.firebase.client_x509_cert_url
               = env["FIREBASE_CLIENT_X509_CERT_URL"].value
        /\ IsNewlineConversion(env["FIREBASE_PRIVATE_KEY"].value,
                               config.firebase.private_key)
        /\ EscapePositions(config.firebase.private_key) = {}

\* C7 witness: a loaded key whose input held two escapes, and a project id
\* holding an escape that is kept as it is.
C7_Witness ==
    /\ cfg_pc = "loaded"
    /\ Cardinality(EscapePositions(env["FIREBASE_PRIVATE_KEY"].value)) = 2
    /\ config.firebase.private_key = <<LF, LF>>
    /\ config.firebase.project_id = <<BSL, "n">>

\* C10: every loaded SystemConfig holds a positive sync interval and a
\* positive concurrency cap.  The int fields carry no constraint, so this
\* fails for SYNC_INTERVAL_MINUTES=0.
C10_PositiveSettings ==
    cfg_pc = "loaded" =>
        /\ config.system.sync_interval_minutes > 0
        /\ config.system.max_concurrent_requests > 0

\* C11: every loaded FirebaseConfig holds six non-empty strings.  The
\* fields are plain str with no length constraint, so this fails for
\* FIREBASE_PROJECT_ID set to the empty string.
C11_NonEmptyFields ==
    cfg_pc = "loaded" =>
        /\ config.firebase.project_id # <<>>
        /\ config.firebase.private_key_id # <<>>
        /\ config.firebase.private_key # <<>>
        /\ config.firebase.client_email # <<>>
        /\ config.firebase.client_id # <<>>
        /\ config.firebase.client_x509_cert_url # <<>>

\* The integer each integer string of the environments explored denotes.
ExpectedInt(s) ==
    CASE s = <<"-", "1">> -> 0 - 1
      [] s = <<"0">> -> 0
      [] s = <<"8">> -> 8
      [] s = <<"1", "5">> -> 15

IntegerStrings == {<<"-", "1">>, <<"0">>, <<"8">>, <<"1", "5">>}

\* The loaded int field of variable var is its default when the variable is
\* absent and the variable's integer when it is present.
IntFieldAsExpected(var, field, default) ==
    IF env[var].set THEN field = ExpectedInt(env[var].value) ELSE field = default

\* C13: absent optional variables load as 30, 5 and "INFO"; a present one
\* gives the field its value; and no load fails because an optional
\* variable is absent.
C13_OptionalDefaults ==
    /\ cfg_pc = "loaded" =>
          /\ IntFieldAsExpected("SYNC_INTERVAL_MINUTES",
                                config.system.sync_interval_minutes, 30)
          /\ IntFieldAsExpected("MAX_CONCURRENT_REQUESTS",
                                config.system.max_concurrent_requests, 5)
          /\ config.system.log_level =
                IF env["LOG_LEVEL"].set THEN env["LOG_LEVEL"].value
                ELSE <<"I", "N", "F", "O">>
    /\ cfg_pc = "failed" =>
          \/ \E var \in RequiredVars : ~env[var].set
          \/ \E var \in {"SYNC_INTERVAL_MINUTES", "MAX_CONCURRENT_REQUESTS"} :
                env[var].set /\ env[var].value \notin IntegerStrings

\* C13 witness: a load with SYNC_INTERVAL_MINUTES and LOG_LEVEL absent and
\* MAX_CONCURRENT_REQUESTS set to 8.
C13_Witness ==
    /\ cfg_pc = "loaded"
    /\ ~env["SYNC_INTERVAL_MINUTES"].set
    /\ ~env["LOG_LEVEL"].set
    /\ env["MAX_CONCURRENT_REQUESTS"] = Present(<<"8">>)
    /\ config.system.sync_interval_minutes = 30
    /\ config.system.max_concurrent_requests = 8
    /\ config.system.log_level = <<"I", "N", "F", "O">>

\* C19: the normalization of the private key is idempotent: applied to a
\* loaded key it returns the key unchanged.
C19_NormalizationIdempotent ==
    cfg_pc = "loaded" =>
        fix_private_key_format(config.firebase.private_key)
            = config.firebase.private_key

\* C19 witness: a loaded key that the normalization changed, from an input
\* where a backslash precedes an escape.
C19_Witness ==
    /\ cfg_pc = "loaded"
    /\ env["FIREBASE_PRIVATE_KEY"].value = <<BSL, BSL, "n">>
    /\ config.firebase.private_key = <<BSL, LF>>

\* C12: validate() returns True for every configuration as loaded and
\* leaves the configuration as it is; when the payload does not serialize
\* it raises the validation error carrying the cause; it never returns
\* False.
C12_ValidateSurfacesFailure ==
    [][/\ validated' # validated =>
            /\ config' = config
            /\ Serializable(creds_dict(config)) <=>
                  validated' = [outcome |-> "returned", value |-> "True",
                                cause |-> "none"]
            /\ ~Serializable(creds_dict(config)) <=>
                  validated' = [outcome |-> "raised", value |-> "ValueError",
                                cause |-> "TypeError"]
       /\ validated'.value # "False"]_vars

\* C12 witness: validate() has raised on a configuration whose client_id
\* holds an injected object.
C12_Witness ==
    /\ cfg_pc = "loaded"
    /\ config.firebase.client_id = Unserializable
    /\ validated.outcome = "raised"
    /\ validated.cause = "TypeError"

\* ------------------------------------------- claims on the initializer

\* Every attempt manager m started has ended with a FirebaseError caught.
AllAttemptsFailed(m) == Finished(m) /\ Len(caught[m]) = attempts[m]

\* C1: with max_retries = N >= 1, if every attempt fails with a FirebaseError
\* then exactly N attempts occur and the initializer raises a
\* ConnectionError that carries the cause of the N-th attempt.
C1_ExhaustionRaisesLastCause ==
    \A m \in Managers :
        (max_retries[m] >= 1 /\ AllAttemptsFailed(m)) =>
            /\ attempts[m] = max_retries[m]
            /\ pc[m] = "raised"
            /\ raised[m].kind = "ConnectionError"
            /\ raised[m].cause = caught[m][max_retries[m]]
            /\ lastThrown[m].attempt = max_retries[m] - 1

\* C1 witness: three recoverable failures under max_retries = 3, the last
\* with another cause than the first two.
C1_Witness ==
    \E m \in Managers :
        /\ max_retries[m] = 3
        /\ pc[m] = "raised"
        /\ caught[m] = <<"e1", "e1", "e2">>
        /\ raised[m] = [kind |-> "ConnectionError", cause |-> "e2"]

\* C2: the initializer gives up only after max_retries recoverable
\* failures, so for k < max_retries, k failures followed by a successful
\* attempt end in a normal return after exactly k + 1 attempts, with the
\* flag set and nothing raised.
C2_SucceedsAfterFailures ==
    \A m \in Managers :
        /\ raised[m].kind = "ConnectionError"
              => Len(caught[m]) = max_retries[m]
        /\ hcAttempt[m] >= 0 =>
              /\ hcAttempt[m] = attempt[m]
              /\ pc[m] \in {"mark", "returned"}
              /\ raised[m] = NoExc
              /\ attempts[m] = Len(caught[m]) + 1
              /\ pc[m] = "returned" => self_initialized[m]

\* C2 witness: two recoverable failures, then success on the third attempt
\* of max_retries = 3.
C2_Witness ==
    \E m \in Managers :
        /\ max_retries[m] = 3
        /\ Len(caught[m]) = 2
        /\ attempts[m] = 3
        /\ pc[m] = "returned"
        /\ self_initialized[m]
        /\ raised[m] = NoExc

\* C3: the sleep after the failure of attempt a (from 0) is
\* retry_delay * 2^a and happens only when a < max_retries - 1; no sleep
\* follows the last failed attempt or a successful one.
C3_ExponentialBackoff ==
    \A m \in Managers :
        /\ \A k \in 1..Len(sleeps[m]) :
              /\ k = 1 => sleeps[m][k] = retry_delay[m]
              /\ k > 1 => sleeps[m][k] = 2 * sleeps[m][k - 1]
              /\ k - 1 < max_retries[m] - 1
        /\ Len(sleeps[m]) <= Len(caught[m])
        /\ Len(sleeps[m]) >= Len(caught[m]) - 1
        /\ raised[m].kind = "ConnectionError"
              => Len(sleeps[m]) = Len(caught[m]) - 1
        /\ pc[m] \in {"for", "check_apps", "certificate", "initialize_app",
                      "client", "health", "mark", "returned"}
              => Len(sleeps[m]) = Len(caught[m])

\* C3 witness: retries exhausted under max_retries = 3 and retry_delay = 3,
\* with the sleeps 3 and 6 and none after the third failure.
C3_Witness ==
    \E m \in Managers :
        /\ max_retries[m] = 3
        /\ retry_delay[m] = 3
        /\ raised[m].kind = "ConnectionError"
        /\ Len(caught[m]) = 3
        /\ sleeps[m] = <<3, 6>>

\* C4: an exception that is no FirebaseError leaves the initializer at
\* once, as it is: no attempt and no sleep follow, and the flag stays false.
C4_OtherExceptionPropagates ==
    \A m \in Managers :
        lastThrown[m].kind = "Other" =>
            /\ pc[m] = "raised"
            /\ raised[m] = [kind |-> "Other", cause |-> lastThrown[m].cause]
            /\ ~self_initialized[m]
            /\ attempts[m] = lastThrown[m].attempt + 1
            /\ Len(sleeps[m]) = lastThrown[m].attempt
            /\ Len(caught[m]) = lastThrown[m].attempt

\* C4 witness: an unrelated exception on the first attempt: one attempt,
\* no sleep.
C4_Witness ==
    \E m \in Managers :
        /\ max_retries[m] = 3
        /\ lastThrown[m].kind = "Other"
        /\ lastThrown[m].attempt = 0
        /\ attempts[m] = 1
        /\ sleeps[m] = <<>>
        /\ pc[m] = "raised"

\* C5: whatever max_retries is, the constructor either leaves the flag true
\* or raises.  range(max_retries) is empty for max_retries <= 0: the method
\* returns with the flag false.
C5_InitializedOrRaises ==
    \A m \in Managers : pc[m] = "returned" => self_initialized[m]

\* C8: a new app handle is requested (payload built, initialize_app called)
\* only while the registry is empty, initialize_app succeeds at most once
\* per process, and an attempt after a failed health check requests none.
C8_SingleApp ==
    [][/\ appRequests' # appRequests => DOMAIN firebase_admin_apps = {}
       /\ initAppOk' # initAppOk => DOMAIN firebase_admin_apps = {}
       /\ initAppOk' <= 1
       /\ \A m \in Managers :
            (lastThrown'[m].step = "health" /\ lastThrown'[m].attempt < attempt'[m])
                => requestedIn'[m] < attempt'[m]]_vars

\* C8 witness: the first construction created the app, failed a health
\* check and succeeded on a later attempt; the second construction
\* succeeded without creating an app.
C8_Witness ==
    /\ initAppOk = 1
    /\ self_app[1] = DefaultApp
    /\ lastThrown[1].step = "health"
    /\ self_initialized[1]
    /\ requestedIn[1] < attempt[1]
    /\ self_initialized[2]
    /\ self_app[2] = None
    /\ requestedIn[2] = 0 - 1

\* C9: the flag is true only after the health-check write of the same
\* attempt succeeded, and a write is preceded by the client, the client by
\* the app.
C9_InitializedAfterHealthCheck ==
    \A m \in Managers :
        /\ self_initialized[m] => (hcAttempt[m] = attempt[m] /\ attempt[m] >= 0)
        /\ hcAttempt[m] >= 0 => self_client[m] # None
        /\ self_client[m] # None => DOMAIN firebase_admin_apps # {}
        /\ pc[m] \in {"health", "mark"} => self_client[m] # None

\* C9 witness: a manager whose flag is set in its second attempt, after the
\* health check of the first attempt failed.
C9_Witness ==
    \E m \in Managers :
        /\ self_initialized[m]
        /\ attempt[m] = 1
        /\ hcAttempt[m] = 1
        /\ lastThrown[m].step = "health"

\* The state of the initializer's state machine manager m is in.  A return
\* with the flag false is no state of the machine.
MachineState(m) ==
    CASE pc[m] = "new" -> "Uninitialized"
      [] pc[m] = "for" /\ attempt[m] < 0 -> "Uninitialized"
      [] pc[m] = "raised" -> "Failed"
      [] pc[m] = "returned" /\ self_initialized[m] -> "Connected"
      [] pc[m] = "returned" /\ ~self_initialized[m] -> "Off the machine"
      [] OTHER -> "Attempting"

MachineTransitions ==
    {<<"Uninitialized", "Attempting">>, <<"Attempting", "Attempting">>,
     <<"Attempting", "Connected">>, <<"Attempting", "Failed">>}

\* C14: the initializer moves Uninitialized -> Attempting -> Connected |
\* Attempting | Failed; Connected and Failed are terminal (no attempt, sleep
\* or write follows, the flag stays); the way out of a failed attempt
\* depends on the attempt counter alone.  With max_retries <= 0 the
\* initializer returns from Uninitialized, in no state of the machine.
C14_StateMachine ==
    [][\A m \in Managers :
          /\ MachineState(m)' # MachineState(m)
                => <<MachineState(m), MachineState(m)'>> \in MachineTransitions
          /\ MachineState(m) \in {"Connected", "Failed"} =>
                /\ pc'[m] = pc[m]
                /\ attempts'[m] = attempts[m]
                /\ sleeps'[m] = sleeps[m]
                /\ hcAttempt'[m] = hcAttempt[m]
                /\ self_initialized'[m] = self_initialized[m]
          /\ (pc[m] = "except" /\ pc'[m] # "except") =>
                pc'[m] = IF attempt[m] < max_retries[m] - 1
                         THEN "for" ELSE "raised"]_vars

Max(a, b) == IF a >= b THEN a ELSE b

\* C15 as stated: at most max_retries attempts and at most max_retries - 1
\* sleeps, for every max_retries.
C15_OriginalBounds ==
    \A m \in Managers :
        pc[m] # "new" =>
            /\ attempts[m] <= max_retries[m]
            /\ Len(sleeps[m]) <= max_retries[m] - 1

\* C15, amended: the initializer terminates, after at most
\* max(max_retries, 0) attempts and at most max(max_retries - 1, 0) sleeps.
C15_BoundedTermination ==
    /\ [](\A m \in Managers :
            /\ attempts[m] <= Max(max_retries[m], 0)
            /\ Len(sleeps[m]) <= Max(max_retries[m] - 1, 0))
    /\ <>(pc[1] \in {"returned", "raised"})

\* C15 witness: a service that kept failing: four attempts and three sleeps
\* under max_retries = 4, then the end.
C15_Witness ==
    /\ pc[1] = "raised"
    /\ max_retries[1] = 4
    /\ attempts[1] = 4
    /\ Len(sleeps[1]) = 3

\* C16: a health-check write changes nothing but the fields timestamp and
\* status of system_health/connection_test: it creates the document if
\* absent, keeps its other fields, and leaves every other document alone.
C16_HealthWriteFrame ==
    [][store' # store =>
          /\ DOMAIN store' = DOMAIN store \cup {HealthDoc}
          /\ \A p \in DOMAIN store : p # HealthDoc => store'[p] = store[p]
          /\ {"timestamp", "status"} \subseteq DOMAIN store'[HealthDoc]
          /\ IF HealthDoc \in DOMAIN store
             THEN /\ DOMAIN store'[HealthDoc] =
                        DOMAIN store[HealthDoc] \cup {"timestamp", "status"}
                  /\ \A f \in DOMAIN store[HealthDoc] \ {"timestamp", "status"} :
                        store'[HealthDoc][f] = store[HealthDoc][f]
             ELSE DOMAIN store'[HealthDoc] = {"timestamp", "status"}]_vars

\* C16 witness: two health-check writes have been merged into a document
\* that existed with another field, which is kept.
C16_Witness ==
    /\ serverClock = 3
    /\ HealthDoc \in DOMAIN store
    /\ DOMAIN store[HealthDoc] = {"timestamp", "status", "owner"}
    /\ store[HealthDoc]["owner"] = "ops"
    /\ store[HealthDoc]["timestamp"] = 2

\* C17: whenever the flag is true the client handle is set.
C17_InitializedHasClient ==
    \A m \in Managers : self_initialized[m] => self_client[m] # None

\* C17 witness: the flag is true with the client set, after an attempt that
\* left the client set and the flag false (its health check failed).
C17_Witness ==
    \E m \in Managers :
        /\ self_initialized[m]
        /\ self_client[m] # None
        /\ lastThrown[m].step = "health"
        /\ lastThrown[m].attempt < attempt[m]

\* C18 as stated: with interleaved constructions the registry is still
\* empty when a thread that saw it empty goes on to create the app, so no
\* initialize_app call finds the app created by the other thread.
C18_CheckThenCreateAtomic ==
    \A m \in Managers :
        /\ pc[m] \in {"certificate", "initialize_app"}
              => DOMAIN firebase_admin_apps = {}
        /\ lastThrown[m].cause # "exists"

\* C18, amended: interleaved constructions may both see the registry empty
\* and both call initialize_app, but at most one call succeeds; the other
\* raises ValueError, which is not retried: that construction fails with
\* it, its flag false and its _app unset.
C18_OneAppDespiteRace ==
    /\ initAppOk <= 1
    /\ Cardinality({m \in Managers : self_app[m] = DefaultApp}) <= 1
    /\ \A m \in Managers :
          lastThrown[m].cause = "exists" =>
              /\ pc[m] = "raised"
              /\ raised[m] = AppExistsError
              /\ ~self_initialized[m]
              /\ self_app[m] = None

\* C18 witness: both threads requested an app in their first attempt; one
\* created it and the other's initialize_app found it there.
C18_Witness ==
    /\ requestedIn[1] = 0
    /\ requestedIn[2] = 0
    /\ initAppOk = 1
    /\ \E m \in Managers : lastThrown[m].cause = "exists"

====
